---------------------------- MODULE Spec2Model ----------------------------
(***************************************************************************)
(* Model of the document indexing and retrieval pipeline of docgram-api:   *)
(*   app/ai/rag.py          _smart_chunk_text, RAGIndexer                   *)
(*   app/ai/ai_agents.py    retrieval_tool                                  *)
(*   app/routers/utils.py   process_pdf_embeddings, delete_embeddings,      *)
(*                          semantic_search                                 *)
(*                                                                         *)
(* Strings are sequences of one-character strings, offsets are 0-based as  *)
(* in the Python source (text[k] of the source is text[k+1] here).         *)
(***************************************************************************)
EXTENDS Integers, Sequences, FiniteSets, TLC

(***************************************************************************)
(* Bounds of the model                                                     *)
(***************************************************************************)
MaxTextLen == 5
MaxChunkSize == 3
MaxOverlap == 3
MaxBatchSize == 2
MaxContexts == 2
MaxBudget == 40
\* the chunk_size and overlap the tasks pass to upsert_pdf, scaled to the
\* documents of the model (the defaults of rag.py:217-218 are 1000 and 200)
PipelineChunkSize == 1
PipelineOverlap == 0

\* longest list of texts _safe_create_embeddings is run on by itself
MaxTexts == 3

VARIABLES
    \* ---- _smart_chunk_text (rag.py:21-73)
    text,             \* argument text
    chunk_size,       \* argument chunk_size
    overlap,          \* argument overlap
    token_positions,  \* list of (token, start_pos, end_pos)
    i,                \* cursor of the outer loop
    chunks,           \* list of (chunk_text, start_pos, end_pos)
    iters,            \* number of iterations of the outer loop so far
    pcChunk,          \* "call" | "loop" | "done" | "raised"
    \* ---- the Pinecone client (self.pc) and its index
    hasIndex,         \* pc.has_index(index_name)
    index,            \* the stored records {id, values, metadata}
    createCalls,      \* number of pc.create_index calls issued so far
    \* ---- the running process_pdf_embeddings tasks
    task,             \* per task: its arguments, locals and position
    \* ---- the last retrieval / search / delete call and what came back
    ret,
    \* ---- the post table (PostModel), per post id
    posts,            \* "absent" | "saved" | "deleted"
    \* ---- _safe_create_embeddings (rag.py:146-160) run by itself
    embTexts,         \* argument texts
    embAttempt,       \* attempt of the for loop
    embCalls,         \* outcomes of the client.embeddings.create calls so far
    embResult,        \* what the call returned or raised
    pcEmbed,          \* "call" | "done"
    \* ---- build_prompt (rag.py:288-312)
    query,            \* argument query
    contexts,         \* argument contexts
    max_context_chars,\* argument max_context_chars
    assembled,        \* the context accumulated by the loop
    prompt,           \* the string returned
    pcPrompt          \* "call" | "done"

chunkVars == <<text, chunk_size, overlap, token_positions, i, chunks, iters, pcChunk>>
indexVars == <<hasIndex, index, createCalls, task, ret, posts>>
embedVars == <<embTexts, embAttempt, embCalls, embResult, pcEmbed>>

promptVars == <<query, contexts, max_context_chars, assembled, prompt, pcPrompt>>

vars == <<chunkVars, indexVars, promptVars, embedVars>>

\* what the steps of one part leave alone
offChunk == <<indexVars, promptVars, embedVars>>
offIndex == <<chunkVars, promptVars, embedVars>>
offPrompt == <<chunkVars, indexVars, embedVars>>
offEmbed == <<chunkVars, indexVars, promptVars>>

(***************************************************************************)
(* Generic helpers                                                         *)
(***************************************************************************)
Min(S) == CHOOSE x \in S : \A y \in S : x <= y
Max2(a, b) == IF a >= b THEN a ELSE b
Min2(a, b) == IF a <= b THEN a ELSE b
Last(s) == s[Len(s)]

SeqsUpTo(S, n) == UNION {[1..k -> S] : k \in 0..n}

(***************************************************************************)
(* Strings                                                                 *)
(***************************************************************************)
Alphabet == {"a", "b", " "}
IsSpace(c) == c = " "

\* "AAAA BBBB CCCC DDDD"
ScenarioText ==
    <<"A","A","A","A"," ","B","B","B","B"," ","C","C","C","C"," ","D","D","D","D">>

\* str.split(): the maximal runs of non-whitespace characters, in order
RECURSIVE SplitFrom(_, _, _, _)
SplitFrom(t, k, cur, acc) ==
    IF k > Len(t)
    THEN IF cur = <<>> THEN acc ELSE Append(acc, cur)
    ELSE IF IsSpace(t[k])
         THEN SplitFrom(t, k + 1, <<>>, IF cur = <<>> THEN acc ELSE Append(acc, cur))
         ELSE SplitFrom(t, k + 1, Append(cur, t[k]), acc)

Split(t) == SplitFrom(t, 1, <<>>, <<>>)

\* variant: the search starts at the beginning of the text
FindFromStart(t, token, pos) ==
    LET hits == {k \in 0..(Len(t) - Len(token)) :
                    SubSeq(t, k + 1, k + Len(token)) = token}
    IN  IF hits = {} THEN -1 ELSE Min(hits)

\* str.find(token, pos): lowest offset >= pos where token occurs, else -1
Find(t, token, pos) ==
    LET hits == {k \in pos..(Len(t) - Len(token)) :
                    SubSeq(t, k + 1, k + Len(token)) = token}
    IN  IF hits = {} THEN -1 ELSE Min(hits)

\* str.strip()
RECURSIVE LStrip(_)
LStrip(s) == IF s # <<>> /\ IsSpace(s[1]) THEN LStrip(Tail(s)) ELSE s
RECURSIVE RStrip(_)
RStrip(s) ==
    IF s # <<>> /\ IsSpace(s[Len(s)]) THEN RStrip(SubSeq(s, 1, Len(s) - 1)) ELSE s
Strip(s) == RStrip(LStrip(s))

\* text[a:b] for 0 <= a
Slice(t, a, b) == SubSeq(t, a + 1, Min2(b, Len(t)))

(***************************************************************************)
(* _smart_chunk_text                                                       *)
(***************************************************************************)
\* rag.py:35-44: the for loop that locates every token
RECURSIVE TokenPositionsFrom(_, _, _, _, _)
TokenPositionsFrom(t, tokens, k, pos, acc) ==
    IF k > Len(tokens) THEN acc
    ELSE LET f == Find(t, tokens[k], pos)
             find_at == IF f = -1 THEN pos ELSE f
         IN  TokenPositionsFrom(t, tokens, k + 1, find_at + Len(tokens[k]),
                 Append(acc, [token |-> tokens[k], s |-> find_at,
                              e |-> find_at + Len(tokens[k])]))

TokenPositions(t) == TokenPositionsFrom(t, Split(t), 1, 0, <<>>)

\* variant: the window is closed as soon as its length reaches chunk_size
RECURSIVE AccumulateStrict(_, _, _, _, _, _)
AccumulateStrict(tp, cs, start_pos, j, chunk_tokens, end_pos) ==
    IF ~(j < Len(tp))
    THEN [j |-> j, end_pos |-> end_pos, chunk_tokens |-> chunk_tokens]
    ELSE LET e == tp[j + 1].e
             approx_len == e - start_pos
         IN  IF approx_len >= cs /\ chunk_tokens # <<>>
             THEN [j |-> j, end_pos |-> end_pos, chunk_tokens |-> chunk_tokens]
             ELSE AccumulateStrict(tp, cs, start_pos, j + 1,
                                   Append(chunk_tokens, tp[j + 1].token), e)

\* rag.py:54-61: the inner while loop; returns the final j, end_pos, chunk_tokens
RECURSIVE Accumulate(_, _, _, _, _, _)
Accumulate(tp, cs, start_pos, j, chunk_tokens, end_pos) ==
    IF ~(j < Len(tp))
    THEN [j |-> j, end_pos |-> end_pos, chunk_tokens |-> chunk_tokens]
    ELSE LET e == tp[j + 1].e
             approx_len == e - start_pos
         IN  IF approx_len > cs /\ chunk_tokens # <<>>
             THEN [j |-> j, end_pos |-> end_pos, chunk_tokens |-> chunk_tokens]
             ELSE Accumulate(tp, cs, start_pos, j + 1,
                             Append(chunk_tokens, tp[j + 1].token), e)

\* rag.py:68-69: while next_i < n and token_positions[next_i][1] < overlap_target
RECURSIVE SkipTo(_, _, _)
SkipTo(tp, next_i, overlap_target) ==
    IF next_i < Len(tp) /\ tp[next_i + 1].s < overlap_target
    THEN SkipTo(tp, next_i + 1, overlap_target)
    ELSE next_i

\* variant: the next window starts one token after the window's first token
NextWindowSlideOne(tp, ii, j, start_pos, end_pos, ov) == ii + 1

\* variant: the scan for the next window starts at the token after the
\* window's first token
NextWindowStepsBack(tp, ii, j, start_pos, end_pos, ov) ==
    LET overlap_target == Max2(start_pos, end_pos - ov)
        next_i == SkipTo(tp, ii + 1, overlap_target)
    IN  IF next_i = ii THEN j ELSE next_i

\* variant: the overlap is added to the window end instead of subtracted
NextWindowSignSlip(tp, ii, j, start_pos, end_pos, ov) ==
    LET overlap_target == Max2(start_pos, end_pos + ov)
        next_i == SkipTo(tp, j, overlap_target)
    IN  IF next_i = ii THEN j ELSE next_i

\* variant: the scan for the next window restarts at the window's own first
\* token and the progress guard is left out
NextWindowNoGuard(tp, ii, j, start_pos, end_pos, ov) ==
    LET overlap_target == Max2(start_pos, end_pos - ov)
    IN  SkipTo(tp, ii, overlap_target)

\* rag.py:66-72: the index of the token that starts the next window
NextWindow(tp, ii, j, start_pos, end_pos, ov) ==
    LET overlap_target == Max2(start_pos, end_pos - ov)
        next_i == SkipTo(tp, j, overlap_target)
    IN  IF next_i = ii THEN j ELSE next_i

\* rag.py:48-72: one iteration of the outer loop, from cursor ii
ChunkStep(t, tp, ii, cs, ov) ==
    LET start_pos == tp[ii + 1].s
        w == Accumulate(tp, cs, start_pos, ii, <<>>, start_pos)
    IN  [chunk |-> [text |-> Strip(Slice(t, start_pos, w.end_pos)),
                    start |-> start_pos, end |-> w.end_pos],
         j |-> w.j,
         next_i |-> NextWindow(tp, ii, w.j, start_pos, w.end_pos, ov)]

\* rag.py:46-73: the outer loop run to its end
RECURSIVE ChunkLoop(_, _, _, _, _, _)
ChunkLoop(t, tp, ii, cs, ov, acc) ==
    IF ~(ii < Len(tp)) THEN acc
    ELSE LET st == ChunkStep(t, tp, ii, cs, ov)
         IN  ChunkLoop(t, tp, st.next_i, cs, ov, Append(acc, st.chunk))

\* rag.py:21-73 for chunk_size > 0
SmartChunkText(t, cs, ov) ==
    IF Split(t) = <<>> THEN <<>> ELSE ChunkLoop(t, TokenPositions(t), 0, cs, ov, <<>>)



(***************************************************************************)
(* build_prompt                                                            *)
(***************************************************************************)
\* dict.get(key, default) on a dict written as a function
Get(d, key, default) == IF key \in DOMAIN d THEN d[key] ELSE default

EmptyDict == <<>>

\* a or b for str operands
Or(a, b) == IF a # "" THEN a ELSE b

\* rag.py:296-299: the block of one match
Candidate(c) ==
    LET meta == Get(c, "metadata", EmptyDict)
        src == Get(meta, "source", "unknown")
        \* meta.get("text") and meta.get("content") give None, which is falsy
        snippet == Or(Get(meta, "text", ""), Or(Get(meta, "content", ""), ""))
    IN  "Source: " \o src \o "\n" \o snippet \o "\n---\n"

\* variant: a block that does not fit is skipped and the loop goes on
RECURSIVE AssembleSkips(_, _, _, _)
AssembleSkips(cs, k, acc, budget) ==
    IF k > Len(cs) THEN acc
    ELSE IF Len(acc) + Len(Candidate(cs[k])) > budget
         THEN AssembleSkips(cs, k + 1, acc, budget)
         ELSE AssembleSkips(cs, k + 1, acc \o Candidate(cs[k]), budget)

\* variant: the budget is tested against what is accumulated so far only
RECURSIVE AssembleLateTest(_, _, _, _)
AssembleLateTest(cs, k, acc, budget) ==
    IF k > Len(cs) THEN acc
    ELSE IF Len(acc) > budget
         THEN acc
         ELSE AssembleLateTest(cs, k + 1, acc \o Candidate(cs[k]), budget)

\* rag.py:294-302: the loop from the k-th context on
RECURSIVE Assemble(_, _, _, _)
Assemble(cs, k, acc, budget) ==
    IF k > Len(cs) THEN acc
    ELSE LET candidate == Candidate(cs[k])
         IN  IF Len(acc) + Len(candidate) > budget
             THEN acc
             ELSE Assemble(cs, k + 1, acc \o candidate, budget)

\* rag.py:303-311: the f-string around the context and the query
PromptHead ==
    "You are an assistant. Use the following context to answer the user's question. Cite the 'Source' lines when relevant.\n\nContext:\n"
PromptMid == "\n\nUser question:\n"
PromptTail == "\n\nAnswer concisely and cite sources where useful."

Wrap(ctx, q) == PromptHead \o ctx \o PromptMid \o q \o PromptTail

\* rag.py:289: the default budget
DefaultMaxContextChars == 4000

\* rag.py:288-312
BuildPromptText(q, cs, budget) == Wrap(Assemble(cs, 1, "", budget), q)

(***************************************************************************)
(* The vector index, the embedding provider and RAGIndexer                 *)
(***************************************************************************)
None == "None"
Posts == {"A", "B"}
Tasks == {"t1", "t2"}
Queries == {"", "q"}

\* truth value of an Optional[str]
Truthy(v) == v # None /\ v # ""

\* the title a task is started with
TitleOf(t) == IF t = "t1" THEN "Intro" ELSE "Notes"

\* uploaded files: one that cannot be parsed, and parseable ones with their text
Pdfs == {[ok |-> FALSE, text |-> <<>>],
         [ok |-> TRUE, text |-> <<>>],
         [ok |-> TRUE, text |-> <<"a", " ", "b">>]}

\* rag.py:150
max_retries == 3

\* ai_agents.py:54 and utils.py:165
ToolTopK == 3
SearchTopK == 50

\* the vector the provider computes for a text
Embedding(txt) == <<"vec", txt>>

\* the data of a provider response for the inputs texts: one vector per input,
\* or, for a malformed response, one vector too few
ProviderData(texts, outcome) ==
    [k \in 1..(IF outcome = "ok" THEN Len(texts) ELSE Len(texts) - 1)
        |-> Embedding(texts[k])]

\* variant: one attempt more is made
RetryExhaustedLate(attempt) == attempt = max_retries + 1

\* rag.py:158: if attempt == max_retries: raise
RetryExhausted(attempt) == attempt = max_retries

\* rag.py:142-144: the batch that starts at start_idx
BatchAt(items, start_idx, batch_size) ==
    SubSeq(items, start_idx + 1, Min2(start_idx + batch_size, Len(items)))

\* variant: a chunk id made of the chunk's position alone
ChunkDictsPositional(t, metas) ==
    [k \in 1..Len(metas) |->
        [chunk_id |-> <<"doc", k>>, text |-> metas[k].text, start |-> metas[k].start,
         end |-> metas[k].end, length |-> metas[k].end - metas[k].start]]

\* rag.py:130-139: the chunk dicts of a document, with their fresh uuid4 ids
\* (a uuid4 is modelled by the pair of the task that drew it and its position)
ChunkDicts(t, metas) ==
    [k \in 1..Len(metas) |->
        [chunk_id |-> <<t, k>>, text |-> metas[k].text, start |-> metas[k].start,
         end |-> metas[k].end, length |-> metas[k].end - metas[k].start]]

\* variant: the embeddings are paired with the chunks in reverse
BuildVectorsCrossed(batch, embeddings, title, post_id) ==
    [k \in 1..Min2(Len(batch), Len(embeddings)) |->
        [id |-> batch[k].chunk_id,
         values |-> embeddings[Min2(Len(batch), Len(embeddings)) + 1 - k],
         metadata |-> [text |-> batch[k].text, post_id |-> post_id,
                       source |-> title, start |-> batch[k].start,
                       end |-> batch[k].end, length |-> batch[k].length]]]

\* rag.py:187-199: the records built from a batch and its embeddings (zip)
BuildVectors(batch, embeddings, title, post_id) ==
    [k \in 1..Min2(Len(batch), Len(embeddings)) |->
        [id |-> batch[k].chunk_id,
         values |-> embeddings[k],
         metadata |-> [text |-> batch[k].text, post_id |-> post_id,
                       source |-> title, start |-> batch[k].start,
                       end |-> batch[k].end, length |-> batch[k].length]]]

Range(f) == {f[x] : x \in DOMAIN f}

\* variant: the upsert replaces the stored records of the namespace
UpsertReplacesAll(idx, vectors) == Range(vectors)

\* index.upsert(vectors): a record replaces the stored record of the same id
UpsertInto(idx, vectors) ==
    {r \in idx : \A k \in 1..Len(vectors) : vectors[k].id # r.id} \cup Range(vectors)

\* the sequences without repetition of n elements of S
InjSeqs(S, n) == {q \in [1..n -> S] : \A a, b \in 1..n : a # b => q[a] # q[b]}

\* index.query(vector, top_k, filter): the possible answers of the index. The
\* ranking is the index's own (any order of the records, best first); a filter
\* restricts the candidates to the records whose metadata equal it on its keys.
IndexQuery(idx, kwargs) ==
    LET cands == IF "filter" \in DOMAIN kwargs
                 THEN {r \in idx : \A f \in kwargs.filter : r.metadata[f[1]] = f[2]}
                 ELSE idx
        n == Min2(kwargs.top_k, Cardinality(cands))
    IN  {[k \in 1..n |-> [id |-> q[k].id, score |-> n - k, metadata |-> q[k].metadata]]
            : q \in InjSeqs(cands, n)}

\* rag.py:249: the dict {"post_id": post_id} as a set of (key, value) pairs;
\* None and the empty dict are both written {} (both are falsy at rag.py:256)
QueryFilter(post_id) == IF post_id # None THEN {<<"post_id", post_id>>} ELSE {}

\* variant: the filter is built but never put into the query
QueryKwargsNoFilter(dense_embedding, post_id, top_k) ==
    [vector |-> dense_embedding, top_k |-> top_k, include_metadata |-> TRUE]

\* rag.py:249-257
QueryKwargs(dense_embedding, post_id, top_k) ==
    LET query_filter == QueryFilter(post_id)
        base == [vector |-> dense_embedding, top_k |-> top_k,
                 include_metadata |-> TRUE]
    IN  IF query_filter # {}
        THEN [vector |-> dense_embedding, top_k |-> top_k,
              include_metadata |-> TRUE, filter |-> query_filter]
        ELSE base

\* variant: the matches are returned last first
ResultsReversed(matches) ==
    [k \in 1..Len(matches) |->
        [id |-> matches[Len(matches) + 1 - k].id,
         score |-> matches[Len(matches) + 1 - k].score,
         metadata |-> matches[Len(matches) + 1 - k].metadata]]

\* rag.py:266-286: the matches as retrieval returns them
Results(matches) ==
    [k \in 1..Len(matches) |->
        [id |-> matches[k].id, score |-> matches[k].score,
         metadata |-> matches[k].metadata]]

NoKwargs == [top_k |-> 0]

\* variant: an exception of a service is caught and the call goes on to
\* return what it has
Swallowed(failure) == ""

\* rag.py:243-259: no try around pc.Index, embeddings.create and index.query:
\* what a service raises is what retrieval raises
Propagate(failure) == failure

\* retrieval without the test of rag.py:240-241
RetrievalNoShortCircuit(query_text, post_id, top_k) ==
    IF ~hasIndex
    THEN {[raised |-> Propagate("NotFoundException"), failed |-> "NotFoundException",
           matches |-> <<>>, results |-> <<>>, embed_calls |-> 0,
           query_calls |-> 0, kwargs |-> NoKwargs]}
    ELSE LET kw == QueryKwargs(Embedding(query_text), post_id, top_k)
         IN  {[raised |-> Propagate("EmbeddingFailure"), failed |-> "EmbeddingFailure",
               matches |-> <<>>, results |-> <<>>, embed_calls |-> 1,
               query_calls |-> 0, kwargs |-> NoKwargs],
              [raised |-> Propagate("QueryFailure"), failed |-> "QueryFailure",
               matches |-> <<>>, results |-> <<>>, embed_calls |-> 1,
               query_calls |-> 1, kwargs |-> kw]}
             \cup
             {[raised |-> "", failed |-> "", matches |-> m, results |-> Results(m),
               embed_calls |-> 1, query_calls |-> 1, kwargs |-> kw]
                : m \in IndexQuery(index, kw)}

\* rag.py:230-286: what one call of retrieval can do. raised is "" when it
\* returns; embed_calls and query_calls count its calls of the provider and of
\* the index; kwargs is what it passed to index.query
Retrieval(query_text, post_id, top_k) ==
    IF query_text = ""
    THEN {[raised |-> "", failed |-> "", matches |-> <<>>, results |-> <<>>,
           embed_calls |-> 0, query_calls |-> 0, kwargs |-> NoKwargs]}
    ELSE IF ~hasIndex
    THEN {[raised |-> Propagate("NotFoundException"), failed |-> "NotFoundException",
           matches |-> <<>>, results |-> <<>>, embed_calls |-> 0,
           query_calls |-> 0, kwargs |-> NoKwargs]}
    ELSE LET kw == QueryKwargs(Embedding(query_text), post_id, top_k)
         IN  {[raised |-> Propagate("EmbeddingFailure"), failed |-> "EmbeddingFailure",
               matches |-> <<>>, results |-> <<>>, embed_calls |-> 1,
               query_calls |-> 0, kwargs |-> NoKwargs],
              [raised |-> Propagate("QueryFailure"), failed |-> "QueryFailure",
               matches |-> <<>>, results |-> <<>>, embed_calls |-> 1,
               query_calls |-> 1, kwargs |-> kw]}
             \cup
             {[raised |-> "", failed |-> "", matches |-> m, results |-> Results(m),
               embed_calls |-> 1, query_calls |-> 1, kwargs |-> kw]
                : m \in IndexQuery(index, kw)}

\* post_ids when only the best match is read
SearchPostIdsFirstOnly(res) ==
    IF res = <<>> THEN {} ELSE {res[1].metadata.post_id}

\* utils.py:167-173: the set post_ids built from the matches
SearchPostIds(res) ==
    {res[k].metadata.post_id :
        k \in {x \in 1..Len(res) : Truthy(res[x].metadata.post_id)}}

\* utils.py:174: list(post_ids), the elements of a set of str in the order the
\* interpreter iterates it (it depends on the hash seed of the process)
ListOfSet(S) == InjSeqs(S, Cardinality(S))

\* the text of a chunk as a str
RECURSIVE ToStr(_)
ToStr(cs) == IF cs = <<>> THEN "" ELSE Head(cs) \o ToStr(Tail(cs))

\* the matches of a retrieval as build_prompt reads them
PromptContexts(res) ==
    [k \in 1..Len(res) |->
        [id |-> "m",
         metadata |-> [source |-> res[k].metadata.source,
                       text |-> ToStr(res[k].metadata.text)]]]


(***************************************************************************)
(* State of the pipeline at rest                                           *)
(***************************************************************************)
NoRet == [op |-> "none", query |-> "", post_id |-> None, raised |-> "",
          results |-> <<>>, post_ids |-> <<>>, embed_calls |-> 0,
          query_calls |-> 0, kwargs |-> NoKwargs, prompt |-> "",
          failed |-> "",       \* the call of a service that failed, if one did
          matches |-> <<>>]    \* what index.query answered

NoResult == [kind |-> "none", upserted |-> 0, error |-> ""]
NoEmbed == [kind |-> "none", attempt |-> 0]

IdleTask ==
    [pc |-> "idle", post_id |-> None, title |-> None,
     pdf |-> [ok |-> TRUE, text |-> <<>>],
     chunk_size |-> 0, overlap |-> 0, batch_size |-> 0,
     chunks |-> <<>>, start_idx |-> 0, attempt |-> 0,
     calls |-> <<>>,          \* outcomes of the provider calls of the current embedding call
     embed |-> NoEmbed,       \* how the current embedding call ended
     embeddings |-> <<>>, total_upserted |-> 0,
     attempted |-> {},        \* start_idx of the batches entered so far
     succeeded |-> {},        \* start_idx of the batches whose upsert returned
     result |-> NoResult]

ChunkIdle ==
    /\ text = <<>> /\ chunk_size = 1 /\ overlap = 0 /\ token_positions = <<>>
    /\ i = 0 /\ chunks = <<>> /\ iters = 0 /\ pcChunk = "idle"

PromptIdle ==
    /\ query = "" /\ contexts = <<>> /\ max_context_chars = 0
    /\ assembled = "" /\ prompt = "" /\ pcPrompt = "idle"

IndexIdle ==
    /\ hasIndex = FALSE /\ index = {} /\ createCalls = 0
    /\ task = [t \in Tasks |-> IdleTask]
    /\ ret = NoRet
    /\ posts = [p \in Posts |-> "absent"]

NoEmbResult == [kind |-> "none", embeddings |-> <<>>, error |-> ""]

EmbedIdle ==
    /\ embTexts = <<>> /\ embAttempt = 0 /\ embCalls = <<>>
    /\ embResult = NoEmbResult /\ pcEmbed = "idle"

(***************************************************************************)
(* process_pdf_embeddings: one background task, step by step               *)
(***************************************************************************)
SetTask(t, r) == task' = [task EXCEPT ![t] = r]

\* utils.py:78-79: the exception is logged and the task returns None
\* variant: the exception leaves the task
LoggedReraises(r, why) ==
    [r EXCEPT !.pc = "done", !.result = [kind |-> "raised", upserted |-> 0, error |-> why]]

\* utils.py:77-78: except Exception as e: logger.error(...)
Logged(r, why) ==
    [r EXCEPT !.pc = "done", !.result = [kind |-> "logged", upserted |-> 0, error |-> why]]

\* rag.py:178: the loop moves to the next batch
NextBatch(r) == [r EXCEPT !.pc = "batch", !.start_idx = r.start_idx + r.batch_size]

\* variant: a failed batch ends the loop
BatchFailedAborts(r) == [r EXCEPT !.pc = "batch", !.start_idx = Len(r.chunks)]

\* rag.py:207-209: the batch's exception is logged, the loop goes on
BatchFailed(r) == NextBatch(r)

\* utils.py:69-74, with the arguments upsert_pdf is run with
StartTask(t) ==
    /\ ret.op = "none"
    /\ task[t].pc = "idle"
    /\ \E p \in Posts, pdf \in Pdfs, bs \in 1..MaxBatchSize :
          SetTask(t, [task[t] EXCEPT !.pc = "pp_has_index", !.post_id = p,
                          !.title = TitleOf(t), !.pdf = pdf,
                          !.chunk_size = PipelineChunkSize,
                          !.overlap = PipelineOverlap, !.batch_size = bs])
    /\ UNCHANGED <<hasIndex, index, createCalls, ret, posts, offIndex>>

\* variant: create_index is issued without asking has_index
HasIndexSkipped(t) ==
    /\ ret.op = "none"
    /\ task[t].pc \in {"pp_has_index", "uc_has_index"}
    /\ SetTask(t, [task[t] EXCEPT
            !.pc = IF task[t].pc = "pp_has_index" THEN "pp_create" ELSE "uc_create"])
    /\ UNCHANGED <<hasIndex, index, createCalls, ret, posts, offIndex>>

\* rag.py:94: if not self.pc.has_index(...), at utils.py:75 (pp) and rag.py:174 (uc)
HasIndex(t) ==
    /\ ret.op = "none"
    /\ task[t].pc \in {"pp_has_index", "uc_has_index"}
    /\ LET site == IF task[t].pc = "pp_has_index" THEN "pp" ELSE "uc"
       IN  IF hasIndex
           THEN SetTask(t, [task[t] EXCEPT !.pc = IF site = "pp" THEN "extract" ELSE "batch"])
           ELSE SetTask(t, [task[t] EXCEPT !.pc = IF site = "pp" THEN "pp_create" ELSE "uc_create"])
    /\ UNCHANGED <<hasIndex, index, createCalls, ret, posts, offIndex>>

\* rag.py:95-104: self.pc.create_index(...); the service refuses to create an
\* index that exists, and the error leaves through utils.py:78
CreateIndex(t) ==
    /\ ret.op = "none"
    /\ task[t].pc \in {"pp_create", "uc_create"}
    /\ createCalls' = createCalls + 1
    /\ IF hasIndex
       THEN /\ SetTask(t, Logged(task[t], "create_index: ALREADY_EXISTS"))
            /\ UNCHANGED hasIndex
       ELSE /\ hasIndex' = TRUE
            /\ SetTask(t, [task[t] EXCEPT
                              !.pc = IF task[t].pc = "pp_create" THEN "extract" ELSE "batch"])
    /\ UNCHANGED <<index, ret, posts, offIndex>>

\* rag.py:225-227, 127-140: pdf_to_chunks
PdfToChunks(t) ==
    /\ ret.op = "none"
    /\ task[t].pc = "extract"
    /\ IF ~task[t].pdf.ok
       THEN SetTask(t, Logged(task[t], "extraction failed"))
       ELSE SetTask(t, [task[t] EXCEPT
                !.pc = "uc_entry",
                !.chunks = ChunkDicts(t, SmartChunkText(task[t].pdf.text,
                                          task[t].chunk_size, task[t].overlap))])
    /\ UNCHANGED <<hasIndex, index, createCalls, ret, posts, offIndex>>

\* rag.py:172-174
UpsertChunksEntry(t) ==
    /\ ret.op = "none"
    /\ task[t].pc = "uc_entry"
    /\ IF task[t].chunks = <<>>
       THEN SetTask(t, [task[t] EXCEPT !.pc = "done",
                           !.result = [kind |-> "dict", upserted |-> 0, error |-> ""]])
       ELSE SetTask(t, [task[t] EXCEPT !.pc = "uc_has_index", !.start_idx = 0,
                           !.total_upserted = 0])
    /\ UNCHANGED <<hasIndex, index, createCalls, ret, posts, offIndex>>

\* rag.py:178-181, 210: the next batch, or the summary when there is none left
\* (the locals of the last batch end with the call)
BatchBegin(t) ==
    /\ ret.op = "none"
    /\ task[t].pc = "batch"
    /\ IF task[t].start_idx < Len(task[t].chunks)
       THEN SetTask(t, [task[t] EXCEPT !.pc = "embed", !.attempt = 1, !.calls = <<>>,
                           !.embed = NoEmbed, !.embeddings = <<>>,
                           !.attempted = task[t].attempted \cup {task[t].start_idx}])
       ELSE SetTask(t, [task[t] EXCEPT !.pc = "done", !.attempt = 0,
                           !.calls = <<>>, !.embed = NoEmbed, !.embeddings = <<>>,
                           !.result = [kind |-> "summary",
                                       upserted |-> task[t].total_upserted,
                                       error |-> ""]])
    /\ UNCHANGED <<hasIndex, index, createCalls, ret, posts, offIndex>>

\* rag.py:151-159: one attempt of _safe_create_embeddings
EmbedAttempt(t) ==
    /\ ret.op = "none"
    /\ task[t].pc = "embed"
    /\ LET r == task[t]
           batch == BatchAt(r.chunks, r.start_idx, r.batch_size)
           texts == [k \in 1..Len(batch) |-> batch[k].text]
       IN  \E outcome \in {"ok", "short", "fail"} :
             LET called == [r EXCEPT !.calls = Append(r.calls, outcome)]
             IN  IF outcome # "fail"
                 THEN SetTask(t, [called EXCEPT
                          !.pc = "build",
                          !.embeddings = ProviderData(texts, outcome),
                          !.embed = [kind |-> "returned", attempt |-> r.attempt]])
                 ELSE IF RetryExhausted(r.attempt)
                 THEN SetTask(t, BatchFailed([called EXCEPT
                          !.embed = [kind |-> "raised", attempt |-> r.attempt]]))
                 ELSE SetTask(t, [called EXCEPT !.attempt = r.attempt + 1])
    /\ UNCHANGED <<hasIndex, index, createCalls, ret, posts, offIndex>>

\* variant: the number of embeddings is not compared with the batch
LengthMismatchIgnored(embeddings, batch) == FALSE

\* rag.py:184: if len(embeddings) != len(batch)
LengthMismatch(embeddings, batch) == Len(embeddings) # Len(batch)

\* rag.py:184-206: the length check, the records, the upsert
BuildAndUpsert(t) ==
    /\ ret.op = "none"
    /\ task[t].pc = "build"
    /\ LET r == task[t]
           batch == BatchAt(r.chunks, r.start_idx, r.batch_size)
           vectors == BuildVectors(batch, r.embeddings, r.title, r.post_id)
       IN  IF LengthMismatch(r.embeddings, batch)
           THEN SetTask(t, BatchFailed(r)) /\ UNCHANGED index
           ELSE \/ /\ index' = UpsertInto(index, vectors)
                   /\ SetTask(t, NextBatch([r EXCEPT
                          !.total_upserted = r.total_upserted + Len(vectors),
                          !.succeeded = r.succeeded \cup {r.start_idx}]))
                \/ /\ UNCHANGED index
                   /\ SetTask(t, BatchFailed(r))
    /\ UNCHANGED <<hasIndex, createCalls, ret, posts, offIndex>>

(***************************************************************************)
(* The calls that read the index, and delete_embeddings                    *)
(***************************************************************************)
\* ai_agents.py:50-56: retrieval_tool of a chat about post p
RetrievalTool ==
    /\ ret.op = "none"
    /\ \E q \in Queries, p \in Posts \cup {""} :
        \E out \in Retrieval(q, p, ToolTopK) :
            ret' = [NoRet EXCEPT !.op = "retrieval_tool", !.query = q, !.post_id = p,
                        !.raised = out.raised, !.results = out.results,
                        !.failed = out.failed, !.matches = out.matches,
                        !.embed_calls = out.embed_calls,
                        !.query_calls = out.query_calls, !.kwargs = out.kwargs,
                        !.prompt = IF out.raised # "" THEN ""
                                   ELSE BuildPromptText(q, PromptContexts(out.results),
                                                        DefaultMaxContextChars)]
    /\ UNCHANGED <<hasIndex, index, createCalls, task, posts, offIndex>>

\* utils.py:163-174
SemanticSearch ==
    /\ ret.op = "none"
    /\ \E q \in Queries :
        \E out \in Retrieval(q, None, SearchTopK) :
            \E ids \in (IF out.raised = "" THEN ListOfSet(SearchPostIds(out.results))
                        ELSE {<<>>}) :
                ret' = [NoRet EXCEPT !.op = "semantic_search", !.query = q,
                            !.raised = out.raised, !.results = out.results,
                            !.failed = out.failed, !.matches = out.matches,
                            !.post_ids = ids,
                            !.embed_calls = out.embed_calls,
                            !.query_calls = out.query_calls, !.kwargs = out.kwargs]
    /\ UNCHANGED <<hasIndex, index, createCalls, task, posts, offIndex>>

\* utils.py:81-83: RAGIndexer (rag.py:76-312) defines no delete_embeddings, so
\* the attribute lookup raises and nothing is sent to the index
DeleteEmbeddings ==
    /\ ret.op = "none"
    /\ \E p \in Posts :
            ret' = [NoRet EXCEPT !.op = "delete_embeddings", !.post_id = p,
                        !.raised = "AttributeError"]
    /\ UNCHANGED <<hasIndex, index, createCalls, task, posts, offIndex>>

\* the call's result has gone back to its caller
CallReturns ==
    /\ ret.op # "none"
    /\ ret' = NoRet
    /\ UNCHANGED <<hasIndex, index, createCalls, task, posts, offIndex>>

Init == ChunkIdle /\ IndexIdle /\ PromptIdle /\ EmbedIdle

Next ==
    \/ \E t \in Tasks : StartTask(t)
    \/ \E t \in Tasks : HasIndex(t)
    \/ \E t \in Tasks : CreateIndex(t)
    \/ \E t \in Tasks : PdfToChunks(t)
    \/ \E t \in Tasks : UpsertChunksEntry(t)
    \/ \E t \in Tasks : BatchBegin(t)
    \/ \E t \in Tasks : EmbedAttempt(t)
    \/ \E t \in Tasks : BuildAndUpsert(t)
    \/ RetrievalTool
    \/ SemanticSearch
    \/ DeleteEmbeddings
    \/ CallReturns

Spec == Init /\ [][Next]_vars

(***************************************************************************)
(* One worker: create_post, its background task and delete_post, the       *)
(* background tasks running one after another                              *)
(***************************************************************************)
\* post.py:203-234: a post with a fresh uuid4 id is saved, then its
\* process_pdf_embeddings task is scheduled
CreatePost(t) ==
    /\ ret.op = "none"
    /\ task[t].pc = "idle"
    /\ \A u \in Tasks \ {t} : task[u].pc \in {"idle", "done"}
    /\ \E p \in Posts, pdf \in Pdfs, bs \in 1..MaxBatchSize :
          /\ posts[p] = "absent"
          /\ posts' = [posts EXCEPT ![p] = "saved"]
          /\ SetTask(t, [task[t] EXCEPT !.pc = "pp_has_index", !.post_id = p,
                          !.title = TitleOf(t), !.pdf = pdf,
                          !.chunk_size = PipelineChunkSize,
                          !.overlap = PipelineOverlap, !.batch_size = bs])
    /\ UNCHANGED <<hasIndex, index, createCalls, ret, offIndex>>

\* post.py:336-365: delete_post removes the post from the table; it sends
\* nothing to the index. A post that is not found, another owner or a table
\* error end in the HTTPException of post.py:363-365
DeletePost ==
    /\ ret.op = "none"
    /\ \E p \in Posts :
          \/ /\ posts[p] = "saved"
             /\ posts' = [posts EXCEPT ![p] = "deleted"]
             /\ ret' = [NoRet EXCEPT !.op = "delete_post", !.post_id = p]
          \/ /\ ret' = [NoRet EXCEPT !.op = "delete_post", !.post_id = p,
                             !.raised = "HTTPException 500"]
             /\ UNCHANGED posts
    /\ UNCHANGED <<hasIndex, index, createCalls, task, offIndex>>

NextSeq ==
    \/ \E t \in Tasks : CreatePost(t)
    \/ \E t \in Tasks : HasIndex(t)
    \/ \E t \in Tasks : CreateIndex(t)
    \/ \E t \in Tasks : PdfToChunks(t)
    \/ \E t \in Tasks : UpsertChunksEntry(t)
    \/ \E t \in Tasks : BatchBegin(t)
    \/ \E t \in Tasks : EmbedAttempt(t)
    \/ \E t \in Tasks : BuildAndUpsert(t)
    \/ DeletePost
    \/ RetrievalTool
    \/ CallReturns

SpecSeq == Init /\ [][NextSeq]_vars

(***************************************************************************)
(* _safe_create_embeddings run by itself, one provider call per step       *)
(***************************************************************************)
\* the lists of texts the call is made with
EmbedTexts == SeqsUpTo({"", "a"}, MaxTexts)

\* the outcomes of client.embeddings.create for a list of texts: a full
\* response, a response one vector short, an exception
ProviderOutcomes(ts) == IF ts = <<>> THEN {"ok", "fail"} ELSE {"ok", "short", "fail"}

InitEmbed ==
    /\ embTexts \in EmbedTexts
    /\ embAttempt = 1
    /\ embCalls = <<>>
    /\ embResult = NoEmbResult
    /\ pcEmbed = "call"
    /\ ChunkIdle
    /\ IndexIdle
    /\ PromptIdle

\* rag.py:151-159: one pass of the for loop
SafeCreateEmbeddings ==
    /\ pcEmbed = "call"
    /\ \E outcome \in ProviderOutcomes(embTexts) :
          /\ embCalls' = Append(embCalls, outcome)
          /\ IF outcome # "fail"
             THEN /\ embResult' = [kind |-> "returned",
                                   embeddings |-> ProviderData(embTexts, outcome),
                                   error |-> ""]
                  /\ pcEmbed' = "done"
                  /\ UNCHANGED embAttempt
             ELSE IF RetryExhausted(embAttempt)
             THEN /\ embResult' = [kind |-> "raised", embeddings |-> <<>>,
                                   error |-> "ProviderError"]
                  /\ pcEmbed' = "done"
                  /\ UNCHANGED embAttempt
             ELSE /\ embAttempt' = embAttempt + 1
                  /\ UNCHANGED <<embResult, pcEmbed>>
    /\ UNCHANGED <<embTexts, offEmbed>>

NextEmbed == SafeCreateEmbeddings

SpecEmbed == InitEmbed /\ [][NextEmbed]_vars

(***************************************************************************)
(* _smart_chunk_text run on its own, one loop iteration per step           *)
(***************************************************************************)
\* the inputs the chunker is run on
ChunkTexts == SeqsUpTo(Alphabet, MaxTextLen) \cup {ScenarioText}
ChunkSizes == (-1)..MaxChunkSize \cup {9}
Overlaps == (-1)..MaxOverlap \cup {4}

InitChunk ==
    /\ text \in ChunkTexts
    /\ chunk_size \in ChunkSizes
    /\ overlap \in Overlaps
    /\ (text = ScenarioText => chunk_size = 9)
    /\ (chunk_size = 9 => text = ScenarioText)
    /\ token_positions = <<>>
    /\ i = 0
    /\ chunks = <<>>
    /\ iters = 0
    /\ pcChunk = "call"
    /\ IndexIdle
    /\ PromptIdle
    /\ EmbedIdle

\* variant: a chunk_size that is not positive gives no chunk and no error
ChunkRaiseReturnsEmpty ==
    /\ pcChunk = "call"
    /\ chunk_size <= 0
    /\ pcChunk' = "done"
    /\ UNCHANGED <<text, chunk_size, overlap, token_positions, i, chunks, iters>>
    /\ UNCHANGED offChunk

\* variant: a text without tokens is an error
ChunkEmptyRaises ==
    /\ pcChunk = "call"
    /\ chunk_size > 0
    /\ Split(text) = <<>>
    /\ pcChunk' = "raised"
    /\ UNCHANGED <<text, chunk_size, overlap, token_positions, i, chunks, iters>>
    /\ UNCHANGED offChunk

\* rag.py:27-28
ChunkRaise ==
    /\ pcChunk = "call"
    /\ chunk_size <= 0
    /\ pcChunk' = "raised"
    /\ UNCHANGED <<text, chunk_size, overlap, token_positions, i, chunks, iters>>
    /\ UNCHANGED offChunk

\* rag.py:29-31
ChunkEmpty ==
    /\ pcChunk = "call"
    /\ chunk_size > 0
    /\ Split(text) = <<>>
    /\ pcChunk' = "done"
    /\ UNCHANGED <<text, chunk_size, overlap, token_positions, i, chunks, iters>>
    /\ UNCHANGED offChunk

\* rag.py:34-47
ChunkTokenize ==
    /\ pcChunk = "call"
    /\ chunk_size > 0
    /\ Split(text) # <<>>
    /\ token_positions' = TokenPositions(text)
    /\ i' = 0
    /\ chunks' = <<>>
    /\ pcChunk' = "loop"
    /\ UNCHANGED <<text, chunk_size, overlap, iters, offChunk>>

\* rag.py:48-72
ChunkIterate ==
    /\ pcChunk = "loop"
    /\ i < Len(token_positions)
    /\ LET st == ChunkStep(text, token_positions, i, chunk_size, overlap)
       IN  /\ chunks' = Append(chunks, st.chunk)
           /\ i' = st.next_i
    /\ iters' = iters + 1
    /\ UNCHANGED <<text, chunk_size, overlap, token_positions, pcChunk, offChunk>>

\* rag.py:48, 73
ChunkReturn ==
    /\ pcChunk = "loop"
    /\ ~(i < Len(token_positions))
    /\ pcChunk' = "done"
    /\ UNCHANGED <<text, chunk_size, overlap, token_positions, i, chunks, iters>>
    /\ UNCHANGED offChunk

NextChunk ==
    \/ ChunkRaise
    \/ ChunkEmpty
    \/ ChunkTokenize
    \/ ChunkIterate
    \/ ChunkReturn

SpecChunk == InitChunk /\ [][NextChunk]_vars


(***************************************************************************)
(* Properties of the index, the pipeline and the retrieval calls           *)
(***************************************************************************)
IndexIds == {r.id : r \in index}

\* C1: a retrieval with a post_id that is not None passes the metadata filter
\* post_id = that id to the index query, and every match it returns carries
\* that post_id, whatever else the shared index holds.
C1_FilterApplied ==
    (ret.op = "retrieval_tool" /\ ret.post_id # None /\ ret.query_calls = 1)
        => /\ "filter" \in DOMAIN ret.kwargs
           /\ ret.kwargs.filter = {<<"post_id", ret.post_id>>}
           /\ \A k \in 1..Len(ret.results) :
                ret.results[k].metadata.post_id = ret.post_id

C1_Witness ==
    /\ ret.op = "retrieval_tool" /\ ret.raised = ""
    /\ Len(ret.results) >= 2
    /\ \E r \in index : r.metadata.post_id # ret.post_id

\* C2: delete_embeddings(post_id) completes without error, and after it the
\* index holds no record of that post, so that a retrieval filtered on the
\* post returns nothing.
C2_DeleteRemoves ==
    ret.op = "delete_embeddings"
        => /\ ret.raised = ""
           /\ \A r \in index : r.metadata.post_id # ret.post_id
           /\ \A out \in Retrieval("q", ret.post_id, ToolTopK) :
                out.raised = "" => out.results = <<>>

\* the start_idx of every batch of a chunk list
BatchStarts(r) == {k \in 0..(Len(r.chunks) - 1) : k % r.batch_size = 0}

\* the positions of the chunks in the batches of a set of batch starts
ChunksOf(r, starts) ==
    {k \in 1..Len(r.chunks) : \E b \in starts : b < k /\ k <= b + r.batch_size}

\* C6: a batch whose embedding or upsert fails does not stop upsert_chunks:
\* every batch is attempted, the count of the summary is the number of chunks
\* of the batches whose upsert succeeded, and the chunks of the other batches
\* are not in the index.
C6_BatchIsolation ==
    \A t \in Tasks :
        LET r == task[t] IN
        /\ r.pc \in {"batch", "embed", "build"}
            => /\ r.total_upserted = Cardinality(ChunksOf(r, r.succeeded))
               /\ r.attempted =
                    {b \in BatchStarts(r) :
                        b < r.start_idx \/ (b = r.start_idx /\ r.pc # "batch")}
        /\ r.result.kind = "summary"
            => /\ r.attempted = BatchStarts(r)
               /\ r.result.upserted = Cardinality(ChunksOf(r, r.succeeded))
        /\ \A k \in 1..Len(r.chunks) :
                r.chunks[k].chunk_id \in IndexIds <=> k \in ChunksOf(r, r.succeeded)

C6_Witness ==
    \E t \in Tasks :
        /\ task[t].result.kind = "summary"
        /\ \E a \in task[t].attempted \ task[t].succeeded :
                \E b \in task[t].succeeded : b > a
        /\ task[t].result.upserted = 1

\* C7: one call of _safe_create_embeddings makes at most 3 provider calls, none
\* after the first that succeeds, whose vectors it returns; it raises only
\* when 3 attempts failed, and then the error of the third.
C7_BoundedRetry ==
    \A t \in Tasks :
        LET r == task[t] IN
        /\ Len(r.calls) <= 3
        /\ \A k \in 1..(Len(r.calls) - 1) : r.calls[k] = "fail"
        /\ r.pc = "embed" => (r.attempt = Len(r.calls) + 1 /\ r.embed.kind = "none")
        /\ r.embed.kind = "returned"
            => /\ r.calls # <<>> /\ Last(r.calls) # "fail"
               /\ r.embed.attempt = Len(r.calls)
        /\ r.embed.kind = "raised"
            => /\ r.calls = <<"fail", "fail", "fail">>
               /\ r.embed.attempt = 3

C7_Witness ==
    \E t, u \in Tasks :
        /\ task[t].embed.kind = "raised"
        /\ task[u].embed.kind = "returned" /\ Len(task[u].calls) = 3

\* the post ids of the matches in the order of their first occurrence
RECURSIVE FirstSeen(_, _)
FirstSeen(res, acc) ==
    IF res = <<>> THEN acc
    ELSE LET p == Head(res).metadata.post_id
         IN  FirstSeen(Tail(res),
                 IF Truthy(p) /\ \A k \in 1..Len(acc) : acc[k] # p
                 THEN Append(acc, p) ELSE acc)

\* C10: semantic_search returns the post ids in the order in which they first
\* occur in the ranked matches.
C10_FirstSeenOrder ==
    (ret.op = "semantic_search" /\ ret.raised = "")
        => ret.post_ids = FirstSeen(ret.results, <<>>)


(***************************************************************************)
(* build_prompt run on its own                                             *)
(***************************************************************************)
\* the matches build_prompt is run on: with and without metadata, and with
\* metadata that hold or lack source, text and content
MetaValues(key) ==
    IF key = "source" THEN {"T"}
    ELSE IF key = "text" THEN {"", "xy"}
    ELSE {"c"}

Metas ==
    {m \in UNION {[D -> {"T", "", "xy", "c"}] : D \in SUBSET {"source", "text", "content"}} :
        \A key \in DOMAIN m : m[key] \in MetaValues(key)}

Matches == {[id |-> "m"]} \cup {[id |-> "m", metadata |-> m] : m \in Metas}

InitPrompt ==
    /\ query \in {"", "q?"}
    /\ contexts \in SeqsUpTo(Matches, MaxContexts)
    /\ max_context_chars \in 0..MaxBudget \cup {DefaultMaxContextChars}
    /\ (query = "q?" => max_context_chars \in {0, DefaultMaxContextChars})
    /\ assembled = ""
    /\ prompt = ""
    /\ pcPrompt = "call"
    /\ ChunkIdle
    /\ IndexIdle
    /\ EmbedIdle

BuildPrompt ==
    /\ pcPrompt = "call"
    /\ assembled' = Assemble(contexts, 1, "", max_context_chars)
    /\ prompt' = BuildPromptText(query, contexts, max_context_chars)
    /\ pcPrompt' = "done"
    /\ UNCHANGED <<query, contexts, max_context_chars, offPrompt>>

NextPrompt == BuildPrompt

SpecPrompt == InitPrompt /\ [][NextPrompt]_vars

RECURSIVE ConcatBlocks(_, _)
ConcatBlocks(cs, n) ==
    IF n = 0 THEN "" ELSE ConcatBlocks(cs, n - 1) \o Candidate(cs[n])

RECURSIVE BlocksLen(_, _)
BlocksLen(cs, n) == IF n = 0 THEN 0 ELSE BlocksLen(cs, n - 1) + Len(Candidate(cs[n]))

\* the length of the longest prefix of cs whose blocks fit the budget together
FittingPrefix(cs, budget) ==
    CHOOSE n \in 0..Len(cs) :
        /\ BlocksLen(cs, n) <= budget
        /\ \A m \in (n + 1)..Len(cs) : BlocksLen(cs, m) > budget

\* C9: the accumulated context is the concatenation, in order, of the whole
\* blocks of the longest prefix of the matches that fits the budget, and when
\* a block did not fit, a match appended to the list changes nothing.
C9_LongestFittingPrefix ==
    pcPrompt = "done"
        => LET n == FittingPrefix(contexts, max_context_chars)
           IN  /\ assembled = ConcatBlocks(contexts, n)
               /\ prompt = Wrap(ConcatBlocks(contexts, n), query)
               /\ n < Len(contexts)
                    => \A extra \in Matches :
                         BuildPromptText(query, Append(contexts, extra),
                                         max_context_chars) = prompt

C9_Witness ==
    /\ pcPrompt = "done"
    /\ Len(contexts) = 2
    /\ FittingPrefix(contexts, max_context_chars) = 1
    /\ Len(Candidate(contexts[2])) <= max_context_chars

(***************************************************************************)
(* Properties of _smart_chunk_text                                         *)
(***************************************************************************)
\* the whitespace-delimited tokens of t as [s, e) spans, read off the text itself
TokenSpans(t) ==
    {sp \in (0..Len(t)) \X (0..Len(t)) :
        /\ sp[1] < sp[2]
        /\ \A k \in (sp[1] + 1)..sp[2] : ~IsSpace(t[k])
        /\ (sp[1] = 0 \/ IsSpace(t[sp[1]]))
        /\ (sp[2] = Len(t) \/ IsSpace(t[sp[2] + 1]))}

\* index of the first token whose start offset is >= off (Len(tp) when none is)
FirstTokenFrom(tp, off) ==
    Min({k \in 0..Len(tp) : k = Len(tp) \/ tp[k + 1].s >= off})

ChunkTextsOf(cs) == [k \in 1..Len(cs) |-> cs[k].text]

ScenarioCall == text = ScenarioText /\ chunk_size = 9 /\ overlap = 4

\* C3: after a window ending at E the next window starts at the first token
\* whose start offset is >= E - overlap (or, when that would not advance, at
\* the token after the window), and "AAAA BBBB CCCC DDDD" with chunk_size 9
\* and overlap 4 is chunked into "AAAA BBBB", "BBBB CCCC", "CCCC DDDD".
C3_OverlapAdvance ==
    /\ (pcChunk \in {"loop", "done"} /\ chunks # <<>>
            /\ 0 < overlap /\ overlap < chunk_size)
        => LET c == Last(chunks)
               prev == FirstTokenFrom(token_positions, c.start)
               first == FirstTokenFrom(token_positions, c.end - overlap)
           IN  i = IF first > prev THEN first
                   ELSE FirstTokenFrom(token_positions, c.end)
    /\ (pcChunk = "done" /\ ScenarioCall)
        => ChunkTextsOf(chunks) =
             << <<"A","A","A","A"," ","B","B","B","B">>,
                <<"B","B","B","B"," ","C","C","C","C">>,
                <<"C","C","C","C"," ","D","D","D","D">> >>

\* C4: for 0 < overlap < chunk_size every whitespace-delimited token of the
\* text lies inside the span of some returned chunk, and no chunk boundary
\* falls strictly inside a token.
C4_TokensCovered ==
    (pcChunk = "done" /\ 0 < overlap /\ overlap < chunk_size)
        => /\ \A sp \in TokenSpans(text) :
                \E k \in 1..Len(chunks) :
                    chunks[k].start <= sp[1] /\ sp[2] <= chunks[k].end
           /\ \A sp \in TokenSpans(text) : \A k \in 1..Len(chunks) :
                /\ ~(sp[1] < chunks[k].start /\ chunks[k].start < sp[2])
                /\ ~(sp[1] < chunks[k].end /\ chunks[k].end < sp[2])

C4_Witness ==
    /\ pcChunk = "done" /\ 0 < overlap /\ overlap < chunk_size
    /\ Len(chunks) >= 2
    /\ Cardinality(TokenSpans(text)) >= 2
    /\ \E k \in 1..Len(chunks) : chunks[k].end - chunks[k].start > chunk_size

\* C5: every iteration of the outer loop moves the cursor to a strictly
\* greater token index, never past the number of tokens, so there are at most
\* as many chunks as tokens and the call ends, whatever the overlap.
C5_Terminates ==
    /\ [](pcChunk \in {"loop", "done"}
            => (iters = Len(chunks) /\ iters <= i /\ i <= Len(token_positions)))
    /\ [][(pcChunk = "loop" /\ pcChunk' = "loop")
            => (i' > i /\ iters' = iters + 1)]_vars

C5_Witness ==
    /\ pcChunk = "done" /\ overlap >= chunk_size
    /\ Len(chunks) >= 2
    /\ Len(chunks) = Len(token_positions)

(***************************************************************************)
(* semantic_search and the empty query                                     *)
(***************************************************************************)
\* C11: semantic_search calls retrieval without a document filter and with
\* top_k = 50, and the list it returns holds every post id found in the
\* metadata of the returned matches exactly once, and no other id.
C11_SearchCollectsIds ==
    (ret.op = "semantic_search" /\ ret.query_calls = 1)
        => /\ "filter" \notin DOMAIN ret.kwargs
           /\ ret.kwargs.top_k = 50
           /\ ret.raised = ""
                => /\ \A a, b \in 1..Len(ret.post_ids) :
                        ret.post_ids[a] = ret.post_ids[b] => a = b
                   /\ Range(ret.post_ids) =
                        {ret.results[k].metadata.post_id : k \in 1..Len(ret.results)}

C11_Witness ==
    /\ ret.op = "semantic_search" /\ ret.raised = ""
    /\ Len(ret.results) >= 3
    /\ Len(ret.post_ids) = 2

\* C12: retrieval called with an empty query_text returns an empty list and
\* calls neither the embedding provider nor the index, whatever post_id and
\* top_k are and whether or not the index exists.
C12_EmptyQueryShortCircuit ==
    (ret.op \in {"retrieval_tool", "semantic_search"} /\ ret.query = "")
        => /\ ret.raised = "" /\ ret.results = <<>>
           /\ ret.embed_calls = 0 /\ ret.query_calls = 0

C12_Witness ==
    /\ ret.op = "retrieval_tool" /\ ret.query = "" /\ ret.post_id \in Posts
    /\ hasIndex
    /\ \E r \in index : r.metadata.post_id = ret.post_id

(***************************************************************************)
(* The number of embeddings of a batch                                     *)
(***************************************************************************)
\* the batch a task has just left, and the ids of its chunks
PrevBatch(r) == BatchAt(r.chunks, r.start_idx - r.batch_size, r.batch_size)
PrevBatchIds(r) == {PrevBatch(r)[k].chunk_id : k \in 1..Len(PrevBatch(r))}

\* the batch whose embeddings a task is holding
HeldBatch(r) ==
    IF r.pc = "build" THEN BatchAt(r.chunks, r.start_idx, r.batch_size)
    ELSE PrevBatch(r)

ChunkIdsOf(r) == {r.chunks[k].chunk_id : k \in 1..Len(r.chunks)}

\* the record that upsert_chunks builds from chunk k of a task
RecordOf(r, k) ==
    [id |-> r.chunks[k].chunk_id,
     values |-> Embedding(r.chunks[k].text),
     metadata |-> [text |-> r.chunks[k].text, post_id |-> r.post_id,
                   source |-> r.title, start |-> r.chunks[k].start,
                   end |-> r.chunks[k].end, length |-> r.chunks[k].length]]

\* C15: two runs of the indexing pipeline for the same post id, with no
\* delete in between, draw disjoint chunk ids, and the index holds the
\* records of both runs: no record of one run is replaced or dropped by the
\* other.
C15_ReindexAddsRecords ==
    \A t, u \in Tasks :
        (t # u /\ task[t].post_id = task[u].post_id /\ task[t].post_id # None)
            => /\ ChunkIdsOf(task[t]) \cap ChunkIdsOf(task[u]) = {}
               /\ \A k \in ChunksOf(task[t], task[t].succeeded) :
                        RecordOf(task[t], k) \in index

C15_Witness ==
    /\ task["t1"].post_id = task["t2"].post_id
    /\ \A t \in Tasks : task[t].result.kind = "summary" /\ task[t].result.upserted = 2
    /\ Cardinality({r \in index : r.metadata.post_id = task["t1"].post_id}) = 4

\* C19: a record that is in the index stays in it with the same id, vector
\* and metadata through every later step of indexing and retrieval, and the
\* records a step adds carry ids that were not in the index.
C19_RecordsImmutable ==
    [][/\ index \subseteq index'
       /\ \A r \in index' \ index : r.id \notin IndexIds]_vars

C19_Witness ==
    /\ Cardinality(index) >= 3
    /\ \E t \in Tasks : Cardinality(task[t].succeeded) = 2
    /\ ret.op = "retrieval_tool" /\ ret.raised = "" /\ ret.results # <<>>

C14_EmptyListFailsFast ==
    embTexts = <<>>
        => /\ embCalls = <<>>
           /\ pcEmbed = "done"
                => /\ embResult.kind = "raised"
                   /\ embResult.error # "ProviderError"

(***************************************************************************)
(* Posts, their background task and their records                          *)
(***************************************************************************)
RecordsOfPost(p) == {r \in index : r.metadata.post_id = p}

\* C16: when the text extraction of a post's pdf fails, process_pdf_embeddings
\* logs the failure and returns without raising; the step changes neither
\* the index nor the post table, the post keeps the record create_post
\* saved, and the index holds no record of the post.
C16_ExtractionFailureIsolated ==
    /\ [](\A t \in Tasks :
            task[t].result.error = "extraction failed"
                => /\ task[t].pc = "done" /\ task[t].result.kind = "logged"
                   /\ task[t].chunks = <<>>
                   /\ RecordsOfPost(task[t].post_id) = {}
                   /\ posts[task[t].post_id] # "absent")
    /\ [][\A t \in Tasks :
            (task[t].pc = "extract" /\ ~task[t].pdf.ok /\ task'[t] # task[t])
                => /\ task'[t].pc = "done"
                   /\ task'[t].result =
                        [kind |-> "logged", upserted |-> 0, error |-> "extraction failed"]
                   /\ index' = index /\ posts' = posts /\ hasIndex' = hasIndex]_vars

C16_Witness ==
    \E t, u \in Tasks :
        /\ task[t].result.error = "extraction failed"
        /\ posts[task[t].post_id] = "saved"
        /\ task[u].result.kind = "summary" /\ task[u].result.upserted = 2
        /\ Cardinality(RecordsOfPost(task[u].post_id)) = 2

\* C17: once delete_post has succeeded for a post, the index holds no record
\* whose post_id is that post's id.
C17_DeleteKeepsIndexConsistent ==
    \A p \in Posts : posts[p] = "deleted" => RecordsOfPost(p) = {}

\* C18: calls of create_index_if_not_exists made one after another issue
\* create_index at most once, and only when the index is absent; a call that
\* finds the index present changes neither the index nor its records.
C18_CreateIndexIdempotent ==
    /\ [](createCalls <= 1 /\ (createCalls = 1 => hasIndex))
    /\ [][/\ createCalls' # createCalls => (~hasIndex /\ createCalls' = createCalls + 1)
           /\ \A t \in Tasks :
                (/\ task[t].pc \in {"pp_has_index", "uc_has_index"}
                 /\ hasIndex /\ task'[t] # task[t])
                    => /\ task'[t].pc \in {"extract", "batch"}
                       /\ hasIndex' /\ index' = index
                       /\ createCalls' = createCalls]_vars

C18_Witness ==
    /\ createCalls = 1
    /\ \A t \in Tasks : task[t].result.kind = "summary"
    /\ Cardinality(index) = 4

(***************************************************************************)
(* _smart_chunk_text: its edge cases and the shape of its chunks           *)
(***************************************************************************)
WhitespaceOnly(t) == \A k \in 1..Len(t) : IsSpace(t[k])

\* C21: on the empty string or a string of whitespace only, with chunk_size >
\* 0 and any overlap, _smart_chunk_text returns no chunk and raises nothing.
C21_NoTokensNoChunks ==
    (pcChunk # "call" /\ chunk_size > 0 /\ WhitespaceOnly(text))
        => pcChunk = "done" /\ chunks = <<>>

C21_Witness ==
    /\ pcChunk = "done" /\ Len(text) >= 2 /\ WhitespaceOnly(text)
    /\ overlap > chunk_size

TokensIn(c) == {sp \in TokenSpans(text) : c.start <= sp[1] /\ sp[2] <= c.end}
TokensAfter(c) == {sp \in TokenSpans(text) : sp[1] >= c.end}

\* C25: a chunk of more than one token has end - start <= chunk_size, a chunk
\* longer than chunk_size is a single token, and for every chunk but the last
\* the token that follows it in the text would have made it longer than
\* chunk_size.
C25_Greedy ==
    pcChunk \in {"loop", "done"}
        => \A k \in 1..Len(chunks) :
            LET c == chunks[k] IN
            /\ Cardinality(TokensIn(c)) > 1 => c.end - c.start <= chunk_size
            /\ c.end - c.start > chunk_size => Cardinality(TokensIn(c)) = 1
            /\ k < Len(chunks)
                => /\ TokensAfter(c) # {}
                   /\ \A sp \in TokensAfter(c) :
                        (\A other \in TokensAfter(c) : sp[1] <= other[1])
                            => sp[2] - c.start > chunk_size

C25_Witness ==
    /\ pcChunk = "done" /\ Len(chunks) >= 2
    /\ Cardinality(TokensIn(chunks[1])) = 2
    /\ chunks[1].end - chunks[1].start = chunk_size

\* C26: every chunk starts at the start of a token and ends at the end of a
\* token, 0 <= start < end <= len(text), its text is text[start:end], and
\* along the sequence start increases strictly and end never decreases.
C26_ChunkOffsets ==
    pcChunk \in {"loop", "done"}
        => /\ \A k \in 1..Len(chunks) :
                LET c == chunks[k] IN
                /\ \E sp \in TokenSpans(text) : sp[1] = c.start
                /\ \E sp \in TokenSpans(text) : sp[2] = c.end
                /\ 0 <= c.start /\ c.start < c.end /\ c.end <= Len(text)
                /\ c.text = Slice(text, c.start, c.end)
           /\ \A k \in 1..(Len(chunks) - 1) :
                /\ chunks[k].start < chunks[k + 1].start
                /\ chunks[k].end <= chunks[k + 1].end

C26_Witness ==
    /\ pcChunk = "done" /\ Len(chunks) >= 2
    /\ chunks[1].text = chunks[2].text
    /\ IsSpace(text[1])

IsRetrieval == ret.op \in {"retrieval_tool", "semantic_search"}

\* C23: retrieval returns at most top_k matches, in the order in which the
\* index answered them (best first, scores descending), none reordered,
\* dropped or repeated.
C23_MatchesInIndexOrder ==
    (IsRetrieval /\ ret.raised = "" /\ ret.query_calls = 1)
        => /\ Len(ret.results) <= ret.kwargs.top_k
           /\ Len(ret.results) = Len(ret.matches)
           /\ \A k \in 1..Len(ret.results) :
                /\ ret.results[k].id = ret.matches[k].id
                /\ ret.results[k].score = ret.matches[k].score
                /\ ret.results[k].metadata = ret.matches[k].metadata
           /\ \A k \in 1..(Len(ret.results) - 1) :
                /\ ret.results[k].score >= ret.results[k + 1].score
                /\ \A l \in (k + 1)..Len(ret.results) :
                        ret.results[k].id # ret.results[l].id

C23_Witness ==
    /\ ret.op = "retrieval_tool" /\ ret.raised = ""
    /\ Len(ret.results) = ToolTopK
    /\ Cardinality({r \in index : r.metadata.post_id = ret.post_id}) > ToolTopK

\* C24: when the query embedding call or the index query fails inside
\* retrieval, the caller gets the error and no result, empty or partial, in
\* its place; a retrieval that returns made both calls and returns the
\* index's whole answer; and no retrieval changes the index.
C24_FailuresPropagate ==
    /\ [](IsRetrieval
            => /\ ret.failed # "" => (ret.raised = ret.failed /\ ret.results = <<>>)
               /\ (ret.raised = "" /\ ret.query # "")
                    => /\ ret.embed_calls = 1 /\ ret.query_calls = 1
                       /\ ret.matches \in IndexQuery(index, ret.kwargs)
                       /\ Len(ret.results) = Len(ret.matches))
    /\ [][(ret'.op \in {"retrieval_tool", "semantic_search"} /\ ret' # ret)
            => (index' = index /\ hasIndex' = hasIndex)]_vars

C24_Witness ==
    /\ ret.op = "retrieval_tool" /\ ret.failed = "QueryFailure"
    /\ \E r \in index : r.metadata.post_id = ret.post_id

(***************************************************************************)
(* The records upsert_chunks writes                                        *)
(***************************************************************************)
\* C27: every record in the index was written for a chunk of a task: its id
\* is the chunk's chunk_id, its post_id and source are the post_id and title
\* of that task's call, its text, start, end and length are the chunk's, with
\* length = end - start, and its vector is the one the provider computed for
\* that chunk's text.
C27_RecordFields ==
    \A r \in index :
        \E t \in Tasks : \E k \in 1..Len(task[t].chunks) :
            LET c == task[t].chunks[k] IN
            /\ r.id = c.chunk_id
            /\ r.values = Embedding(c.text)
            /\ r.metadata.post_id = task[t].post_id
            /\ r.metadata.source = task[t].title
            /\ r.metadata.text = c.text
            /\ r.metadata.start = c.start /\ r.metadata.end = c.end
            /\ r.metadata.length = c.end - c.start

C27_Witness ==
    \E t \in Tasks :
        /\ task[t].batch_size = 2 /\ Len(task[t].chunks) = 2
        /\ task[t].succeeded = {0}
        /\ task[t].chunks[1].text # task[t].chunks[2].text
        /\ Cardinality(RecordsOfPost(task[t].post_id)) = 2

(***************************************************************************)
(* Two indexing tasks at once                                              *)
(***************************************************************************)
AllDone == \A t \in Tasks : task[t].pc = "done"

\* the records a task upserts when no other task runs: those of the batches
\* of its document whose embedding and upsert succeed
OwnRecords(t) ==
    {RecordOf(task[t], k) : k \in ChunksOf(task[t], task[t].succeeded)}

\* C28: when two indexing tasks for different posts have run, in any
\* interleaving, each has done what it does alone (it was not stopped by the
\* other), the index holds exactly the union of their records, and every
\* record carries the post_id of the task that created it.
C28_TasksIndependent ==
    (AllDone /\ task["t1"].post_id # task["t2"].post_id)
        => /\ \A t \in Tasks : task[t].result.error # "create_index: ALREADY_EXISTS"
           /\ index = UNION {OwnRecords(t) : t \in Tasks}
           /\ \A r \in index : \A t \in Tasks :
                r.id \in ChunkIdsOf(task[t]) => r.metadata.post_id = task[t].post_id

\* C29: when two indexing tasks start while the index is absent,
\* create_index is issued at most once in total and no task's indexing ends
\* on the creation of the index.
C29_CreateIndexOnce ==
    /\ createCalls <= 1
    /\ \A t \in Tasks : task[t].result.kind = "logged"
            => task[t].result.error = "extraction failed"

=============================================================================
